---- MODULE Spec2Model ----
(***************************************************************************)
(* Model of jira-to-github.py: the JiraToGithub class and the driver at    *)
(* the bottom of the file.  One behaviour is a sequence of processes       *)
(* ("runs") started on the same Jira export, the same cache path and the   *)
(* same GitHub repository.  A run may be killed between any two steps; the *)
(* cache file and the repository are all that survive a run.               *)
(*                                                                         *)
(* Texts that the program takes apart are sequences of tokens: an issue    *)
(* key is <<"PROJ", "-", "1">>, a pickle is a sequence of opcodes.         *)
(* Python dicts are functions; a key is present iff it is in the DOMAIN.   *)
(***************************************************************************)
EXTENDS Integers, Sequences, FiniteSets, TLC

\* ------------------------------------------------------------------ bounds
MaxItems == 2      \* items in the Jira export
MaxRuns == 2       \* processes started one after the other

\* --------------------------------------------------------------- helpers
Range(s) == {s[i] : i \in 1..Len(s)}

Front(s) == SubSeq(s, 1, Len(s) - 1)

SeqsUpTo(S, n) == UNION {[1..m -> S] : m \in 0..n}

\* Python's None where the other values are numbers.
None == -1

\* --------------------------------------------------------------- pickle
\* pickle.dump of a list of strings, as the opcode stream it writes: one
\* element is followed by APPEND, several are bracketed by MARK .. APPENDS.
Op(o) == [op |-> o, arg |-> <<>>]

Unicode(s) == [op |-> "BINUNICODE", arg |-> s]

\* Only the key appended last is written.
DumpsLastOnly(l) ==
    <<Op("PROTO"), Op("EMPTY_LIST")>>
    \o (IF Len(l) = 0 THEN <<>> ELSE <<Unicode(l[Len(l)]), Op("APPEND")>>)
    \o <<Op("STOP")>>

Dumps(l) ==
    <<Op("PROTO"), Op("EMPTY_LIST")>>
    \o (IF Len(l) = 0 THEN <<>>
        ELSE IF Len(l) = 1 THEN <<Unicode(l[1]), Op("APPEND")>>
        ELSE <<Op("MARK")>> \o [i \in 1..Len(l) |-> Unicode(l[i])] \o <<Op("APPENDS")>>)
    \o <<Op("STOP")>>

\* pickle.load: the unpickler's stack machine.  st.list is the list under
\* construction (st.has says whether EMPTY_LIST was seen), st.items the
\* objects pushed above it, st.mark whether a MARK is on the stack.
PickleError == [ok |-> FALSE, value |-> <<>>]

RECURSIVE Unpickle(_, _, _)
Unpickle(bytes, pos, st) ==
    IF pos > Len(bytes) THEN PickleError     \* EOFError: ran out of input
    ELSE LET t == bytes[pos] IN
         CASE t.op = "PROTO" ->
                IF pos = 1 THEN Unpickle(bytes, pos + 1, st) ELSE PickleError
           [] t.op = "EMPTY_LIST" ->
                IF st.has THEN PickleError
                ELSE Unpickle(bytes, pos + 1, [st EXCEPT !.has = TRUE])
           [] t.op = "MARK" ->
                IF st.has /\ ~st.mark /\ st.items = <<>>
                THEN Unpickle(bytes, pos + 1, [st EXCEPT !.mark = TRUE])
                ELSE PickleError
           [] t.op = "BINUNICODE" ->
                IF st.has
                THEN Unpickle(bytes, pos + 1, [st EXCEPT !.items = Append(@, t.arg)])
                ELSE PickleError
           [] t.op = "APPEND" ->
                IF st.has /\ ~st.mark /\ Len(st.items) = 1
                THEN Unpickle(bytes, pos + 1,
                              [st EXCEPT !.list = Append(@, st.items[1]), !.items = <<>>])
                ELSE PickleError
           [] t.op = "APPENDS" ->
                IF st.has /\ st.mark
                THEN Unpickle(bytes, pos + 1,
                              [st EXCEPT !.list = @ \o st.items, !.items = <<>>,
                                         !.mark = FALSE])
                ELSE PickleError
           [] t.op = "STOP" ->
                IF st.has /\ ~st.mark /\ st.items = <<>>
                THEN [ok |-> TRUE, value |-> st.list]
                ELSE PickleError
           [] OTHER -> PickleError

Loads(bytes) ==
    Unpickle(bytes, 1, [has |-> FALSE, list |-> <<>>, items |-> <<>>, mark |-> FALSE])

\* ------------------------------------------------------- the Jira export
\* str.split('-')[0]: the tokens before the first "-".
RECURSIVE SplitFirst(_)
SplitFirst(text) ==
    IF text = <<>> \/ Head(text) = "-" THEN <<>>
    ELSE <<Head(text)>> \o SplitFirst(Tail(text))

\* The project every run is started for (--jira-project).
jira_project == <<"PROJ">>

\* name2codepoint, for the entities that occur in the export.
name2codepoint == [amp |-> "&", lt |-> "<"]

\* A token of free text is a word, "SP8" (eight consecutive spaces) or an
\* entity reference [entity |-> name]; NoText is a None text.
NoText == <<[none |-> TRUE]>>

Word(w) == [word |-> w]

Entity(n) == [entity |-> n]

Sp8 == [word |-> "SP8"]

htmlentitydecode(s) ==
    IF s = NoText THEN <<>>
    ELSE LET kept == SelectSeq(s, LAMBDA t : t # Sp8)
         IN  [i \in 1..Len(kept) |->
                IF "entity" \in DOMAIN kept[i] /\ kept[i].entity \in DOMAIN name2codepoint
                THEN Word(name2codepoint[kept[i].entity])
                ELSE kept[i]]

\* The characters of the version strings of the export ("d" is a digit, "."
\* a dot), and re.match('^(\d+.){3}\d+$', text): three groups of digits
\* followed by any one character, then digits up to the end.
Chars(text) ==
    CASE text = "1.2.3.4" -> <<"d", ".", "d", ".", "d", ".", "d">>
      [] text = "1.2" -> <<"d", ".", "d">>
      [] text = "12345678" -> <<"d", "d", "d", "d", "d", "d", "d", "d">>
      [] OTHER -> <<"x">>

RECURSIVE MatchGroups(_, _, _)
MatchGroups(cs, pos, groups) ==
    IF groups = 0
    THEN pos <= Len(cs) /\ \A i \in pos..Len(cs) : cs[i] = "d"
    ELSE \E e \in pos..(Len(cs) - 1) :
            /\ \A i \in pos..e : cs[i] = "d"
            /\ MatchGroups(cs, e + 2, groups - 1)

VersionMatches(text) == MatchGroups(Chars(text), 1, 3)

Comment(a, c, t) == [author |-> a, created |-> c, text |-> t]

ItemFull ==
    [key |-> <<"PROJ", "-", "1">>, project |-> <<"PROJ">>, title |-> "Crash on save",
     type |-> "bug", status |-> "Open", reporter |-> "ann", created |-> "d1",
     resolved |-> "d2", description |-> <<Word("a"), Sp8, Entity("amp"), Entity("zzz")>>,
     fixVersion |-> "v1", component |-> "core", version |-> <<"1.2.3.4", "1.2">>,
     priority |-> "feature", labels |-> <<"other">>,
     comments |-> <<Comment("bob", "d3", <<Word("first")>>),
                    Comment("ann", "d4", <<Entity("lt"), Word("second")>>)>>]

ItemBare ==
    [key |-> <<"PROJ", "-", "2">>, title |-> "Add export", type |-> "feature",
     status |-> "Closed", reporter |-> "bob", created |-> "d1", description |-> NoText]

ItemSameKey ==
    [key |-> <<"PROJ", "-", "1">>, title |-> "Crash again", type |-> "bug",
     status |-> "Open", reporter |-> "ann", created |-> "d5",
     description |-> <<Word("b")>>, fixVersion |-> "v2",
     comments |-> <<Comment("cid", "d6", <<Word("third")>>)>>]

ItemOther ==
    [key |-> <<"OTH", "-", "1">>, project |-> <<"OTH">>, title |-> "Other project",
     type |-> "task", status |-> "Open", reporter |-> "cid", created |-> "d1",
     description |-> <<Word("c")>>, fixVersion |-> "v1", labels |-> <<"bug">>,
     comments |-> <<Comment("bob", "d7", <<Word("fourth")>>)>>]

ItemPool == {ItemFull, ItemBare, ItemSameKey, ItemOther}

\* The alias files a run may be given (none, or one with every kind of row).
AliasFiles == {<<>>, [bug |-> "DELETED", feature |-> "enhancement", Open |-> "same"]}

\* What GET /milestones may answer.
MilestoneListings ==
    {<<>>,
     <<[title |-> "v1", number |-> 5]>>,
     <<[title |-> "v3", number |-> 4], [title |-> "v2", number |-> 6], [title |-> "v1", number |-> 5]>>}

\* Status codes of POST /issues.
StatusCodes == {201, 422}

\* Cache files left behind before the first run: none, a zero-length one, or
\* the pickle of an earlier migration.
NoFile == [exists |-> FALSE, bytes |-> <<>>]

InitialFiles ==
    {NoFile,
     [exists |-> TRUE, bytes |-> <<>>],
     [exists |-> TRUE, bytes |-> Dumps(<<<<"PROJ", "-", "2">>>>)]}

\* ------------------------------------------------------------------ state
VARIABLES
    xml,            \* the items of the Jira export, in document order
    file,           \* the cache file: [exists, bytes]
    github_number,  \* issues created in the repository so far
    run,            \* number of the current process
    previous,       \* how the process before this one ended and what it left
    pc,             \* position of the current process
    aliases,        \* self.aliases
    dry_run,        \* self.dry_run
    cached_data,    \* self.cached_data
    projects,       \* self.projects
    item_i,         \* items consumed by the loop of extract()
    listing,        \* the milestone listing this run received
    index,          \* index of the loop of migrate()
    cant_migrate,   \* cant_migrate of migrate()
    bar,            \* the values passed to bar.update, in order
    result,         \* result of the alias loop of migrate()
    comments,       \* comments of migrate(), handed to _save_issue
    response_create,\* response_create of _save_issue
    comment_i,      \* comments posted by the loop of _save_issue
    requests,       \* the POST requests this run has issued, in order
    loaded,         \* cached_data as set_cache_path left it
    save_calls,     \* indexes for which migrate() called _save_issue
    outcome,        \* index -> how migrate() left the issue
    completed,      \* keys that earlier runs created with 201 and wrote to the file
    earlier_runs    \* whether an earlier run was a dry run, and the comments they posted

vars == <<xml, file, github_number, run, previous, pc, aliases, dry_run, cached_data,
          projects, item_i, listing, index, cant_migrate, bar, result, comments,
          response_create, comment_i, requests, loaded, save_calls, outcome, completed,
          earlier_runs>>

world == <<xml, file, github_number, run, previous, completed, earlier_runs>>

config == <<aliases, dry_run, loaded>>

locals == <<result, comments, response_create, comment_i>>

NoResponse == [status_code |-> 0, number |-> 0]

\* The state after __init__: nothing extracted, nothing loaded.
Init ==
    /\ xml \in SeqsUpTo(ItemPool, MaxItems)
    /\ file \in InitialFiles
    /\ github_number = 0
    /\ run = 1
    /\ previous = <<>>
    /\ completed = {}
    /\ earlier_runs = [dry |-> FALSE, sent |-> {}]
    /\ pc = "set_aliases_path"
    /\ aliases = <<>>
    /\ dry_run = FALSE
    /\ cached_data = <<>>
    /\ projects = <<>>
    /\ item_i = 0
    /\ listing = <<>>
    /\ index = 0
    /\ cant_migrate = <<>>
    /\ bar = <<>>
    /\ result = <<>>
    /\ comments = <<>>
    /\ response_create = NoResponse
    /\ comment_i = 0
    /\ requests = <<>>
    /\ loaded = <<>>
    /\ save_calls = <<>>
    /\ outcome = <<>>

\* ---------------------------------------------------------------- set-up
set_aliases_path ==
    /\ pc = "set_aliases_path"
    /\ \E a \in AliasFiles : aliases' = a
    /\ pc' = "set_cache_path"
    /\ UNCHANGED <<world, dry_run, cached_data, projects, item_i, listing, index,
                   cant_migrate, bar, locals, requests, loaded, save_calls, outcome>>

\* os.path.getsize raises FileNotFoundError for a missing file (caught);
\* an unreadable pickle raises out of pickle.load and ends the process.
set_cache_path ==
    /\ pc = "set_cache_path"
    /\ IF file.exists /\ Len(file.bytes) > 0
       THEN IF Loads(file.bytes).ok
            THEN /\ cached_data' = Loads(file.bytes).value
                 /\ pc' = "set_dry_run"
            ELSE /\ cached_data' = cached_data
                 /\ pc' = "crashed"
       ELSE /\ cached_data' = cached_data
            /\ pc' = "set_dry_run"
    /\ loaded' = cached_data'
    /\ UNCHANGED <<world, aliases, dry_run, projects, item_i, listing, index,
                   cant_migrate, bar, locals, requests, save_calls, outcome>>

set_dry_run ==
    /\ pc = "set_dry_run"
    /\ \E flag \in BOOLEAN : dry_run' = (IF flag = TRUE THEN flag ELSE dry_run)
    /\ pc' = "extract"
    /\ UNCHANGED <<world, aliases, cached_data, projects, item_i, listing, index,
                   cant_migrate, bar, locals, requests, loaded, save_calls, outcome>>

\* ------------------------------------------------------------- extraction
\* d[k] += 1 on a defaultdict(int).
Incr(d, k) ==
    [n \in DOMAIN d \cup {k} |-> IF n = k THEN (IF k \in DOMAIN d THEN d[k] ELSE 0) + 1
                                 ELSE d[n]]

EmptyProject == [Milestones |-> <<>>, Components |-> <<>>, Labels |-> <<>>, Issues |-> <<>>]

ItemProject(item) ==
    IF "project" \in DOMAIN item THEN item.project ELSE SplitFirst(item.key)

Body(item) ==
    [reporter |-> item.reporter, created |-> item.created,
     resolved |-> IF "resolved" \in DOMAIN item THEN <<item.resolved>> ELSE <<>>,
     text |-> htmlentitydecode(item.description)]

NewIssue(item) ==
    [title |-> item.title, type |-> item.type, key |-> item.key, body |-> Body(item),
     labels |-> <<item.status, item.type>>, comments |-> <<>>]

\* self.projects[...]['Issues'][-1] and an assignment to it.
Last(p) == p.Issues[Len(p.Issues)]

SetLast(p, i) == [p EXCEPT !.Issues[Len(p.Issues)] = i]

AddLabel(p, l) == SetLast(p, [Last(p) EXCEPT !.labels = Append(@, l)])

WithFixVersion(p, item) ==
    IF "fixVersion" \in DOMAIN item
    THEN LET counted == [p EXCEPT !.Milestones = Incr(@, item.fixVersion)]
         IN  SetLast(counted, ("milestone_name" :> item.fixVersion) @@ Last(counted))
    ELSE p

WithComponent(p, item) ==
    IF "component" \in DOMAIN item
    THEN AddLabel([p EXCEPT !.Components = Incr(@, item.component)], item.component)
    ELSE p

RECURSIVE AddVersions(_, _)
AddVersions(p, versions) ==
    IF versions = <<>> THEN p
    ELSE AddVersions(IF VersionMatches(Head(versions))
                     THEN AddLabel([p EXCEPT !.Labels = Incr(@, Head(versions))],
                                   Head(versions))
                     ELSE p,
                     Tail(versions))

WithVersions(p, item) ==
    IF "version" \in DOMAIN item THEN AddVersions(p, item.version) ELSE p

WithPriority(p, item) ==
    IF "priority" \in DOMAIN item
    THEN AddLabel([p EXCEPT !.Labels = Incr(@, item.priority)], item.priority)
    ELSE p

RECURSIVE AddLabels(_, _)
AddLabels(p, ls) ==
    IF ls = <<>> THEN p
    ELSE AddLabels(AddLabel([p EXCEPT !.Labels = Incr(@, Head(ls))], Head(ls)), Tail(ls))

WithLabels(p, item) ==
    IF "labels" \in DOMAIN item THEN AddLabels(p, item.labels) ELSE p

CommentText(c) ==
    [author |-> c.author, created |-> c.created, text |-> htmlentitydecode(c.text)]

WithComments(p, item) ==
    IF "comments" \in DOMAIN item
    THEN SetLast(p, [Last(p) EXCEPT !.comments =
                        @ \o [n \in 1..Len(item.comments) |->
                                CommentText(item.comments[n])]])
    ELSE p

\* The project is created anew under the key jira_project whenever the
\* item's own project is not a key of self.projects.
ProjectsFor(item) ==
    IF ItemProject(item) \notin DOMAIN projects
    THEN (jira_project :> EmptyProject) @@ projects
    ELSE projects

\* The body of _add_to_projects after the project is chosen: the issue is
\* appended, then each optional field adds its counts, labels and comments.
AddItem(p, item) ==
    LET p0 == [p EXCEPT !.Issues = Append(@, NewIssue(item))]
        p1 == WithFixVersion(p0, item)
        p2 == WithComponent(p1, item)
        p3 == WithVersions(p2, item)
        p4 == WithPriority(p3, item)
        p5 == WithLabels(p4, item)
    IN  WithComments(p5, item)

_add_to_projects(item) ==
    LET ps == ProjectsFor(item)
    IN  projects' = [ps EXCEPT ![jira_project] = AddItem(@, item)]

\* all_xml.channel.item raises AttributeError when the channel has no item.
extract ==
    /\ pc = "extract"
    /\ IF Len(xml) = 0
       THEN /\ pc' = "crashed"
            /\ UNCHANGED <<projects, item_i>>
       ELSE /\ _add_to_projects(xml[item_i + 1])
            /\ item_i' = item_i + 1
            /\ pc' = IF item_i + 1 = Len(xml) THEN "milestones" ELSE "extract"
    /\ UNCHANGED <<world, config, cached_data, listing, index, cant_migrate, bar, locals,
                   requests, save_calls, outcome>>

\* ------------------------------------------------------------- milestones
find_in_milestones(response, mkey) ==
    \E i \in 1..Len(response) : mkey = response[i].title

\* The test of find_in_milestones inverted.
ResolvedMilestonesInverted(ms, response) ==
    [mkey \in DOMAIN ms |-> IF find_in_milestones(response, mkey) = TRUE THEN None
                            ELSE ms[mkey]]

\* Milestones after the loop of milestones(): a name that is not a title of
\* the listing is set to None, a name that is one keeps its count.
ResolvedMilestones(ms, response) ==
    [mkey \in DOMAIN ms |-> IF find_in_milestones(response, mkey) = FALSE THEN None
                            ELSE ms[mkey]]

milestones ==
    /\ pc = "milestones"
    /\ \E response_json \in MilestoneListings :
          /\ listing' = response_json
          /\ projects' = [projects EXCEPT ![jira_project].Milestones =
                             ResolvedMilestones(@, response_json)]
    /\ pc' = "migrate"
    /\ UNCHANGED <<world, config, cached_data, item_i, index, cant_migrate, bar, locals,
                   requests, save_calls, outcome>>

\* ---------------------------------------------------------------- migrate
Issues == projects[jira_project].Issues

Milestones == projects[jira_project].Milestones

\* The issue the loop of migrate() is at (enumerate counts from 0).
issue == Issues[index + 1]

\* The alias loop of migrate(): the list it builds in result.
RECURSIVE AliasResult(_, _)
AliasResult(labels, al) ==
    IF labels = <<>> THEN <<>>
    ELSE LET label == Head(labels)
             rest == AliasResult(Tail(labels), al)
         IN  IF label \in DOMAIN al
             THEN IF al[label] = "DELETED" THEN rest
                  ELSE IF al[label] # "same" THEN <<al[label], label>> \o rest
                  ELSE <<label>> \o rest
             ELSE <<label>> \o rest

\* The labels of the issue after the alias loop: result is not stored back.
LabelsAfterAliases(i, al) == i.labels

Without(i, field) == [f \in DOMAIN i \ {field} |-> i[f]]

\* Only the key added last is looked at.
InCacheLast(key, cache) == cache # <<>> /\ key = cache[Len(cache)]

\* Only the keys read from the file at startup are looked at.
InCacheLoaded(key, cache) == key \in Range(loaded)

InCache(key, cache) == key \in Range(cache)

\* The cache is looked at after the milestone of the issue is filled in.
migrate_cached_late ==
    /\ pc = "migrate"
    /\ index < Len(Issues)
    /\ InCache(issue.key, cached_data)
    /\ bar' = Append(bar, index)
    /\ index' = index + 1
    /\ outcome' = Append(outcome, "skipped")
    /\ projects' = [projects EXCEPT ![jira_project].Issues[index + 1] =
                        IF "milestone_name" \in DOMAIN issue
                        THEN ("milestone" :> Milestones[issue.milestone_name]) @@ issue
                        ELSE issue]
    /\ UNCHANGED <<world, config, pc, cached_data, item_i, listing,
                   cant_migrate, locals, requests, save_calls>>

\* if issue['key'] in self.cached_data: bar.update(index); continue
migrate_cached ==
    /\ pc = "migrate"
    /\ index < Len(Issues)
    /\ InCache(issue.key, cached_data)
    /\ bar' = Append(bar, index)
    /\ index' = index + 1
    /\ outcome' = Append(outcome, "skipped")
    /\ UNCHANGED <<world, config, pc, cached_data, projects, item_i, listing,
                   cant_migrate, locals, requests, save_calls>>

\* The loop is left (break) instead of continued.
migrate_unresolved_breaks ==
    /\ pc = "migrate"
    /\ index < Len(Issues)
    /\ ~InCache(issue.key, cached_data)
    /\ "milestone_name" \in DOMAIN issue
    /\ Milestones[issue.milestone_name] = None
    /\ LET marked == ("milestone" :> None) @@ issue
       IN  /\ projects' = [projects EXCEPT ![jira_project].Issues[index + 1] = marked]
           /\ cant_migrate' = Append(cant_migrate, [issue |-> marked])
    /\ index' = Len(Issues)
    /\ outcome' = Append(outcome, "unresolved")
    /\ UNCHANGED <<world, config, pc, cached_data, item_i, listing, bar, locals,
                   requests, save_calls>>

\* The milestone of the issue is None: the issue goes to cant_migrate and
\* the loop continues, without a bar.update.
migrate_unresolved ==
    /\ pc = "migrate"
    /\ index < Len(Issues)
    /\ ~InCache(issue.key, cached_data)
    /\ "milestone_name" \in DOMAIN issue
    /\ Milestones[issue.milestone_name] = None
    /\ LET marked == ("milestone" :> None) @@ issue
       IN  /\ projects' = [projects EXCEPT ![jira_project].Issues[index + 1] = marked]
           /\ cant_migrate' = Append(cant_migrate, [issue |-> marked])
    /\ index' = index + 1
    /\ outcome' = Append(outcome, "unresolved")
    /\ UNCHANGED <<world, config, pc, cached_data, item_i, listing, bar, locals,
                   requests, save_calls>>

\* The milestone is set and milestone_name stays.
ResolveKeepName(i, ms) ==
    IF "milestone_name" \in DOMAIN i
    THEN ("milestone" :> ms[i.milestone_name]) @@ i
    ELSE i

\* The issue with its milestone resolved: milestone set, milestone_name gone.
Resolve(i, ms) ==
    IF "milestone_name" \in DOMAIN i
    THEN Without(("milestone" :> ms[i.milestone_name]) @@ i, "milestone_name")
    ELSE i

\* The comments are copied for _save_issue but left on the issue.
migrate_submit_keeps_comments ==
    /\ pc = "migrate"
    /\ index < Len(Issues)
    /\ ~InCache(issue.key, cached_data)
    /\ "milestone_name" \in DOMAIN issue => Milestones[issue.milestone_name] # None
    /\ LET resolved == Resolve(issue, Milestones)
           relabelled == [resolved EXCEPT !.labels = LabelsAfterAliases(resolved, aliases)]
       IN  /\ result' = IF Cardinality(DOMAIN aliases) # 0
                        THEN AliasResult(resolved.labels, aliases) ELSE result
           /\ comments' = relabelled.comments
           /\ projects' = [projects EXCEPT ![jira_project].Issues[index + 1] = relabelled]
    /\ save_calls' = Append(save_calls, index)
    /\ pc' = "_save_issue"
    /\ UNCHANGED <<world, config, cached_data, item_i, listing, index, cant_migrate, bar,
                   response_create, comment_i, requests, outcome>>

\* The rest of the loop body up to the call of _save_issue.
migrate_submit ==
    /\ pc = "migrate"
    /\ index < Len(Issues)
    /\ ~InCache(issue.key, cached_data)
    /\ "milestone_name" \in DOMAIN issue => Milestones[issue.milestone_name] # None
    /\ LET resolved == Resolve(issue, Milestones)
           relabelled == [resolved EXCEPT !.labels = LabelsAfterAliases(resolved, aliases)]
       IN  /\ result' = IF Cardinality(DOMAIN aliases) # 0
                        THEN AliasResult(resolved.labels, aliases) ELSE result
           /\ comments' = relabelled.comments
           /\ projects' = [projects EXCEPT ![jira_project].Issues[index + 1] =
                              Without(relabelled, "comments")]
    /\ save_calls' = Append(save_calls, index)
    /\ pc' = "_save_issue"
    /\ UNCHANGED <<world, config, cached_data, item_i, listing, index, cant_migrate, bar,
                   response_create, comment_i, requests, outcome>>

\* bar.update(len(Issues)) after the loop.
migrate_end ==
    /\ pc = "migrate"
    /\ index = Len(Issues)
    /\ bar' = Append(bar, Len(Issues))
    /\ pc' = "done"
    /\ UNCHANGED <<world, config, cached_data, projects, item_i, listing, index,
                   cant_migrate, locals, requests, save_calls, outcome>>

\* ------------------------------------------------------------ _save_issue
\* Any answer counts as a created issue.
CreatedLoose(status_code) == status_code >= 200

Created(status_code) == status_code = 201

CreateRequest(i, payload, status, number) ==
    [op |-> "create", index |-> i, key |-> payload.key, payload |-> payload,
     status_code |-> status, number |-> number]

CommentRequest(i, number, body) ==
    [op |-> "comment", index |-> i, number |-> number, body |-> body]

\* The title is recorded for the issues that did not fail.
ReturnedInverted(value, label) ==
    /\ cant_migrate' = IF value = TRUE
                       THEN Append(cant_migrate, [title |-> issue.title])
                       ELSE cant_migrate
    /\ bar' = Append(bar, index)
    /\ index' = index + 1
    /\ outcome' = Append(outcome, label)
    /\ pc' = "migrate"

\* Back in migrate() after _save_issue returned: the title goes to
\* cant_migrate if it returned False, then bar.update(index).
Returned(value, label) ==
    /\ cant_migrate' = IF value = FALSE
                       THEN Append(cant_migrate, [title |-> issue.title])
                       ELSE cant_migrate
    /\ bar' = Append(bar, index)
    /\ index' = index + 1
    /\ outcome' = Append(outcome, label)
    /\ pc' = "migrate"

\* The cache is not saved before the comments: a created issue goes straight
\* to the comment loop.
post_issue_comments_first ==
    /\ pc = "_save_issue"
    /\ IF dry_run = FALSE
       THEN \E status \in StatusCodes :
               LET number == IF status = 201 THEN github_number + 1 ELSE 0 IN
               /\ requests' = Append(requests, CreateRequest(index, issue, status, number))
               /\ github_number' = IF status = 201 THEN github_number + 1 ELSE github_number
               /\ response_create' = [status_code |-> status, number |-> number]
               /\ IF ~Created(status)
                  THEN Returned(FALSE, "failed")
                  ELSE /\ pc' = "post_comments"
                       /\ UNCHANGED <<cant_migrate, bar, index, outcome>>
       ELSE /\ pc' = "append_cache"
            /\ UNCHANGED <<requests, github_number, response_create, cant_migrate, bar,
                           index, outcome>>
    /\ UNCHANGED <<xml, file, run, previous, completed, earlier_runs, config, cached_data, projects,
                   item_i, listing, result, comments, comment_i, save_calls>>

\* The creation request is sent in a dry run too.
post_issue_ignores_dry_run ==
    /\ pc = "_save_issue"
    /\ \E status \in StatusCodes :
          LET number == IF status = 201 THEN github_number + 1 ELSE 0 IN
          /\ requests' = Append(requests, CreateRequest(index, issue, status, number))
          /\ github_number' = IF status = 201 THEN github_number + 1 ELSE github_number
          /\ response_create' = [status_code |-> status, number |-> number]
          /\ IF ~Created(status)
             THEN Returned(FALSE, "failed")
             ELSE /\ pc' = "append_cache"
                  /\ UNCHANGED <<cant_migrate, bar, index, outcome>>
    /\ UNCHANGED <<xml, file, run, previous, completed, earlier_runs, config, cached_data, projects,
                   item_i, listing, result, comments, comment_i, save_calls>>

\* The creation request (skipped in a dry run) and the check of its status.
post_issue ==
    /\ pc = "_save_issue"
    /\ IF dry_run = FALSE
       THEN \E status \in StatusCodes :
               LET number == IF status = 201 THEN github_number + 1 ELSE 0 IN
               /\ requests' = Append(requests, CreateRequest(index, issue, status, number))
               /\ github_number' = IF status = 201 THEN github_number + 1 ELSE github_number
               /\ response_create' = [status_code |-> status, number |-> number]
               /\ IF ~Created(status)
                  THEN Returned(FALSE, "failed")
                  ELSE /\ pc' = "append_cache"
                       /\ UNCHANGED <<cant_migrate, bar, index, outcome>>
       ELSE /\ pc' = "append_cache"
            /\ UNCHANGED <<requests, github_number, response_create, cant_migrate, bar,
                           index, outcome>>
    /\ UNCHANGED <<xml, file, run, previous, completed, earlier_runs, config, cached_data, projects,
                   item_i, listing, result, comments, comment_i, save_calls>>

\* self.cached_data.append(issue['key'])
append_cache ==
    /\ pc = "append_cache"
    /\ cached_data' = Append(cached_data, issue.key)
    /\ pc' = "open_cache"
    /\ UNCHANGED <<world, config, projects, item_i, listing, index, cant_migrate, bar,
                   locals, requests, save_calls, outcome>>

\* open(self.cache_path, 'wb') creates the file or truncates it to length 0.
open_cache ==
    /\ pc = "open_cache"
    /\ file' = [exists |-> TRUE, bytes |-> <<>>]
    /\ pc' = "dump_cache"
    /\ UNCHANGED <<xml, github_number, run, previous, completed, earlier_runs, config, cached_data,
                   projects, item_i, listing, index, cant_migrate, bar, locals, requests,
                   save_calls, outcome>>

\* pickle.dump and the close of the file: the whole list reaches the file.
dump_cache ==
    /\ pc = "dump_cache"
    /\ file' = [exists |-> TRUE, bytes |-> Dumps(cached_data)]
    /\ pc' = "saved"
    /\ UNCHANGED <<xml, github_number, run, previous, completed, earlier_runs, config,
                   cached_data, projects,
                   item_i, listing, index, cant_migrate, bar, locals, requests,
                   save_calls, outcome>>

\* if self.dry_run: return True; otherwise on to the comments.
after_save ==
    /\ pc = "saved"
    /\ IF dry_run
       THEN Returned(TRUE, "migrated")
       ELSE /\ pc' = "post_comments"
            /\ UNCHANGED <<cant_migrate, bar, index, outcome>>
    /\ comment_i' = 0
    /\ UNCHANGED <<world, config, cached_data, projects, item_i, listing, result, comments,
                   response_create, requests, save_calls>>

\* One round of the comment loop; the response is not looked at.
post_comment ==
    /\ pc = "post_comments"
    /\ comment_i < Len(comments)
    /\ requests' = Append(requests,
                          CommentRequest(index, response_create.number,
                                         comments[comment_i + 1]))
    /\ comment_i' = comment_i + 1
    /\ UNCHANGED <<world, config, pc, cached_data, projects, item_i, listing, index,
                   cant_migrate, bar, result, comments, response_create, save_calls,
                   outcome>>

\* The comment loop is over: _save_issue returns None.
save_issue_end ==
    /\ pc = "post_comments"
    /\ comment_i = Len(comments)
    /\ Returned(TRUE, "migrated")
    /\ UNCHANGED <<world, config, cached_data, projects, item_i, listing, locals,
                   requests, save_calls>>

\* ---------------------------------------------------- kill and a new run
Ended == {"done", "killed", "crashed"}

\* The keys this run has created with 201 and then written to the file:
\* those of the issues the loop is past, and that of the issue it is at
\* once the file is closed.
CompletedThisRun ==
    {requests[n].key : n \in {m \in 1..Len(requests) :
        /\ requests[m].op = "create"
        /\ requests[m].status_code = 201
        /\ requests[m].index < index \/ pc \in {"saved", "post_comments"}}}

\* The comments this run has posted, each with the key of its issue.
SentThisRun ==
    {[key |-> Issues[requests[n].index + 1].key, body |-> requests[n].body] :
        n \in {m \in 1..Len(requests) : requests[m].op = "comment"}}

\* What is known of the runs so far once this one is over.
WithThisRun ==
    [dry |-> earlier_runs.dry \/ dry_run, sent |-> earlier_runs.sent \cup SentThisRun]

\* The process is killed: its memory is gone, the file and the repository
\* stay.  A kill between the open and the close of the cache file leaves
\* what had reached the file: any proper prefix of the pickle, the empty
\* one included.
kill ==
    /\ pc \notin Ended
    /\ pc' = "killed"
    /\ IF pc = "dump_cache"
       THEN \E n \in 0..(Len(Dumps(cached_data)) - 1) :
               file' = [exists |-> TRUE, bytes |-> SubSeq(Dumps(cached_data), 1, n)]
       ELSE file' = file
    /\ aliases' = <<>>
    /\ dry_run' = FALSE
    /\ cached_data' = <<>>
    /\ projects' = <<>>
    /\ item_i' = 0
    /\ listing' = <<>>
    /\ index' = 0
    /\ cant_migrate' = <<>>
    /\ bar' = <<>>
    /\ result' = <<>>
    /\ comments' = <<>>
    /\ response_create' = NoResponse
    /\ comment_i' = 0
    /\ requests' = <<>>
    /\ loaded' = <<>>
    /\ save_calls' = <<>>
    /\ outcome' = <<>>
    /\ completed' = completed \cup CompletedThisRun
    /\ earlier_runs' = WithThisRun
    /\ UNCHANGED <<xml, github_number, run, previous>>

\* What a run leaves behind for the next one.
RunRecord ==
    [end |-> pc, file |-> file, cached_data |-> cached_data,
     wrote |-> "migrated" \in Range(outcome)]

\* A fresh process on the same export, cache path and repository, as
\* __init__ leaves it.
new_run ==
    /\ pc \in Ended
    /\ run < MaxRuns
    /\ run' = run + 1
    /\ previous' = <<RunRecord>>
    /\ pc' = "set_aliases_path"
    /\ aliases' = <<>>
    /\ dry_run' = FALSE
    /\ cached_data' = <<>>
    /\ projects' = <<>>
    /\ item_i' = 0
    /\ listing' = <<>>
    /\ index' = 0
    /\ cant_migrate' = <<>>
    /\ bar' = <<>>
    /\ result' = <<>>
    /\ comments' = <<>>
    /\ response_create' = NoResponse
    /\ comment_i' = 0
    /\ requests' = <<>>
    /\ loaded' = <<>>
    /\ save_calls' = <<>>
    /\ outcome' = <<>>
    /\ completed' = completed \cup CompletedThisRun
    /\ earlier_runs' = WithThisRun
    /\ UNCHANGED <<xml, file, github_number>>

Next ==
    \/ set_aliases_path
    \/ set_cache_path
    \/ set_dry_run
    \/ extract
    \/ milestones
    \/ migrate_cached
    \/ migrate_unresolved
    \/ migrate_submit
    \/ migrate_end
    \/ post_issue
    \/ append_cache
    \/ open_cache
    \/ dump_cache
    \/ after_save
    \/ post_comment
    \/ save_issue_end
    \/ kill
    \/ new_run

\* The steps of the process itself, as opposed to a kill and to the start
\* of the next process.
Step ==
    \/ set_aliases_path
    \/ set_cache_path
    \/ set_dry_run
    \/ extract
    \/ milestones
    \/ migrate_cached
    \/ migrate_unresolved
    \/ migrate_submit
    \/ migrate_end
    \/ post_issue
    \/ append_cache
    \/ open_cache
    \/ dump_cache
    \/ after_save
    \/ post_comment
    \/ save_issue_end

Spec == Init /\ [][Next]_vars

TypeOK ==
    /\ pc \in {"set_aliases_path", "set_cache_path", "set_dry_run", "extract",
               "milestones", "migrate", "_save_issue", "append_cache", "open_cache",
               "dump_cache", "saved", "post_comments"} \cup Ended
    /\ run \in 1..MaxRuns
    /\ Len(previous) = IF run = 1 THEN 0 ELSE 1

\* ================================================================ claims
Creates == SelectSeq(requests, LAMBDA r : r.op = "create")

CommentsOf(i) == SelectSeq(requests, LAMBDA r : r.op = "comment" /\ r.index = i)

Extracted == jira_project \in DOMAIN projects

\* The keys a fresh process would read from file f.
KeysIn(f) ==
    IF f.exists /\ Len(f.bytes) > 0 /\ Loads(f.bytes).ok THEN Loads(f.bytes).value ELSE <<>>

\* The item of the export that issue number i (from 0) was extracted from:
\* Issues holds the issues of the last items of the export.
ItemOf(i) == xml[Len(xml) - Len(Issues) + i + 1]

\* The issue as extraction builds it from an item.
ExtractedFrom(item) == AddItem(EmptyProject, item).Issues[1]

\* The keys appended to the cache since it was loaded.
Added == SubSeq(cached_data, Len(loaded) + 1, Len(cached_data))

\* _save_issue was called for index i and got past the creation: a dry run,
\* or a creation request for i answered with 201.
Succeeded(i) ==
    \/ dry_run
    \/ \E n \in 1..Len(requests) :
          /\ requests[n].op = "create"
          /\ requests[n].index = i
          /\ requests[n].status_code = 201

\* C1: the cache is the loaded cache followed by the keys of the issues for
\* which _save_issue was called and succeeded (201 or dry run), in order,
\* the last of them possibly not appended yet; nothing else is ever added.
C1_CacheOnlySuccesses ==
    /\ Len(loaded) <= Len(cached_data)
    /\ SubSeq(cached_data, 1, Len(loaded)) = loaded
    /\ LET succ == SelectSeq(save_calls, Succeeded)
           keys == [n \in 1..Len(succ) |-> Issues[succ[n] + 1].key]
       IN  IF pc \in {"_save_issue", "append_cache"} /\ succ # <<>>
              /\ succ[Len(succ)] = index
           THEN Added = Front(keys)
           ELSE Added = keys

C1_Witness ==
    /\ ~dry_run
    /\ Added # <<>>
    /\ "failed" \in Range(outcome)

\* C2 as stated: a run started after a run that ran to its end issues no
\* creation request.
C2_SecondRunCreatesNothing ==
    (run >= 2 /\ previous[1].end = "done") => Creates = <<>>

\* C2 amended: a run started after a run that ran to its end issues no
\* creation request for a key that run left in the cache file.
C2_SecondRunCreatesOnlyUncached ==
    (run >= 2 /\ previous[1].end = "done") =>
        \A n \in 1..Len(Creates) :
            Creates[n].key \notin Range(KeysIn(previous[1].file))

C2_Witness ==
    /\ run >= 2
    /\ previous[1].end = "done"
    /\ previous[1].wrote
    /\ pc = "done"
    /\ "skipped" \in Range(outcome)
    /\ Creates # <<>>

\* C3: the labels of every submitted issue are the alias-adjusted labels of
\* the extracted issue when there are aliases, the extracted labels otherwise.
C3_SubmittedLabelsAliased ==
    \A n \in 1..Len(Creates) :
        LET extracted == ExtractedFrom(ItemOf(Creates[n].index)).labels
        IN  Range(Creates[n].payload.labels) =
                IF Cardinality(DOMAIN aliases) # 0
                THEN Range(AliasResult(extracted, aliases))
                ELSE Range(extracted)

NotTitled(name) == \A n \in 1..Len(listing) : listing[n].title # name

\* C4: an issue that is not cached and whose milestone name is no title of
\* the listing has its name mapped to None, and the step of migrate() that
\* handles it puts the issue on cant_migrate, issues no request, leaves the
\* cache and the file alone and moves to the next issue.
C4_UnresolvedDiverted ==
    [][(/\ pc = "migrate"
        /\ index < Len(Issues)
        /\ issue.key \notin Range(cached_data)
        /\ "milestone_name" \in DOMAIN issue
        /\ NotTitled(issue.milestone_name)
        /\ pc' # "killed")
       => (/\ Milestones[issue.milestone_name] = None
           /\ Len(cant_migrate') = Len(cant_migrate) + 1
           /\ SubSeq(cant_migrate', 1, Len(cant_migrate)) = cant_migrate
           /\ "issue" \in DOMAIN cant_migrate'[Len(cant_migrate')]
           /\ cant_migrate'[Len(cant_migrate')].issue.key = issue.key
           /\ cant_migrate'[Len(cant_migrate')].issue.title = issue.title
           /\ requests' = requests
           /\ github_number' = github_number
           /\ cached_data' = cached_data
           /\ file' = file
           /\ pc' = "migrate"
           /\ index' = index + 1)]_vars

C4_Witness ==
    /\ pc = "migrate"
    /\ "unresolved" \in Range(outcome)
    /\ \E n \in 1..Len(cant_migrate) : "issue" \in DOMAIN cant_migrate[n]
    /\ listing # <<>>

\* C5: in a run that is not a dry run, a creation request answered with
\* another status than 201 puts the title on cant_migrate and leaves the
\* cache and the file as they were, and no comment request is ever issued
\* for an index whose creation was not answered with 201.
C5_FailedCreation ==
    /\ [](\A n \in 1..Len(requests) :
            requests[n].op = "comment" =>
                \E m \in 1..(n - 1) : /\ requests[m].op = "create"
                                      /\ requests[m].index = requests[n].index
                                      /\ requests[m].status_code = 201)
    /\ [][(/\ ~dry_run
           /\ Len(requests') = Len(requests) + 1
           /\ requests'[Len(requests')].op = "create"
           /\ requests'[Len(requests')].status_code # 201)
          => (/\ cant_migrate' = Append(cant_migrate, [title |-> issue.title])
              /\ cached_data' = cached_data
              /\ file' = file
              /\ pc' = "migrate"
              /\ index' = index + 1)]_vars

C5_Witness ==
    /\ ~dry_run
    /\ "failed" \in Range(outcome)
    /\ \E n \in 1..Len(cant_migrate) : "title" \in DOMAIN cant_migrate[n]
    /\ \E n \in 1..Len(Creates) : Creates[n].status_code = 422

\* The comments extraction builds for the item of issue number i.
ExpectedComments(i) == ExtractedFrom(ItemOf(i)).comments

Bodies(rs) == [n \in 1..Len(rs) |-> rs[n].body]

IsPrefix(a, b) == Len(a) <= Len(b) /\ SubSeq(b, 1, Len(a)) = a

\* C6: outside a dry run, a comment request is issued only when the key of
\* its issue is in the cache and the file holds the whole cache; the
\* comment requests of an issue follow its creation answered with 201,
\* carry the number of that answer and the extracted comments in order, and
\* are all there, one per comment, once the issue is migrated.
C6_CacheThenComments ==
    /\ [](~dry_run /\ Extracted =>
            /\ \A n \in 1..Len(requests) :
                  requests[n].op = "comment" =>
                      \E m \in 1..(n - 1) : /\ requests[m].op = "create"
                                            /\ requests[m].index = requests[n].index
                                            /\ requests[m].status_code = 201
                                            /\ requests[m].number = requests[n].number
            /\ \A i \in 0..(Len(Issues) - 1) :
                  /\ IsPrefix(Bodies(CommentsOf(i)), ExpectedComments(i))
                  /\ (i < Len(outcome) /\ outcome[i + 1] = "migrated")
                        => Bodies(CommentsOf(i)) = ExpectedComments(i))
    /\ [][(/\ Len(requests') = Len(requests) + 1
           /\ requests'[Len(requests')].op = "comment")
          => (/\ cached_data # <<>>
              /\ cached_data[Len(cached_data)] = issue.key
              /\ file.exists
              /\ Loads(file.bytes) = [ok |-> TRUE, value |-> cached_data])]_vars

C6_Witness ==
    /\ ~dry_run
    /\ pc = "done"
    /\ \E i \in 0..(Len(outcome) - 1) :
          /\ outcome[i + 1] = "migrated"
          /\ Len(CommentsOf(i)) = 2
          /\ CommentsOf(i)[1].number # i + 1

\* An issue of the model that migrate() does not divert in this run
\* whatever the cache holds: it has no milestone, or its milestone is a
\* title of the listing.
Resolvable(i) ==
    "fixVersion" \in DOMAIN ItemOf(i) => ~NotTitled(ItemOf(i).fixVersion)

\* C7: a dry run issues no request, and when migrate() is over the cache,
\* in memory and in the file, holds the key of every issue that was not
\* diverted; an issue that has no milestone or a milestone of the listing
\* is never diverted.
C7_DryRun ==
    dry_run =>
        /\ requests = <<>>
        /\ pc = "done" =>
              \A i \in 0..(Len(Issues) - 1) :
                  /\ Resolvable(i) => outcome[i + 1] # "unresolved"
                  /\ outcome[i + 1] # "unresolved" =>
                        /\ Issues[i + 1].key \in Range(cached_data)
                        /\ Issues[i + 1].key \in Range(KeysIn(file))

C7_Witness ==
    /\ dry_run
    /\ pc = "done"
    /\ loaded = <<>>
    /\ Len(Issues) = 2
    /\ "fixVersion" \in DOMAIN ItemOf(0)
    /\ ~NotTitled(ItemOf(0).fixVersion)
    /\ "fixVersion" \notin DOMAIN ItemOf(1)
    /\ cached_data = <<Issues[1].key, Issues[2].key>>
    /\ KeysIn(file) = cached_data
    /\ github_number = 0

\* C8: when _save_issue has closed the cache file, the file reads back as
\* the cache in memory, which ends with the key of the issue; a process
\* started after a run that saved the cache and ran to its end loads what
\* that run had in memory; a missing or zero-length file is loaded as the
\* empty cache, and set_cache_path fails on neither.
C8_CacheRoundTrip ==
    /\ pc = "saved" =>
          /\ file.exists
          /\ Loads(file.bytes) = [ok |-> TRUE, value |-> cached_data]
          /\ cached_data[Len(cached_data)] = issue.key
          /\ IsPrefix(loaded, cached_data)
    /\ (run >= 2 /\ previous[1].end = "done" /\ previous[1].wrote
            /\ pc \notin {"set_aliases_path", "set_cache_path", "killed"}) =>
          /\ pc # "crashed"
          /\ loaded = previous[1].cached_data
    /\ (~file.exists \/ file.bytes = <<>>) =>
          /\ pc = "set_dry_run" => cached_data = <<>>
          /\ pc = "crashed" => Len(xml) = 0

C8_Witness ==
    /\ run >= 2
    /\ previous[1].end = "done"
    /\ previous[1].wrote
    /\ pc = "set_dry_run"
    /\ Len(cached_data) >= 2
    /\ file.bytes = Dumps(cached_data)

\* C9: no run issues a creation request for a key that an earlier run
\* created with 201 and wrote to the cache file.
C9_NoResubmission ==
    \A n \in 1..Len(Creates) : Creates[n].key \notin completed

HasResolvedMilestone(i) == "milestone" \in DOMAIN i /\ i.milestone # None

MigratePhase(p) ==
    p \in {"milestones", "migrate", "_save_issue", "append_cache", "open_cache",
           "dump_cache", "saved", "post_comments", "done"}

\* C10 as stated: after extraction every issue has milestone_name iff it has
\* no resolved milestone, and milestone_name goes in exactly the step that
\* resolves the milestone.
C10_MilestoneNameIffUnresolved ==
    /\ [](MigratePhase(pc) =>
            \A i \in 1..Len(Issues) :
                "milestone_name" \in DOMAIN Issues[i] <=> ~HasResolvedMilestone(Issues[i]))
    /\ [][(MigratePhase(pc) /\ MigratePhase(pc')) =>
            \A i \in 1..Len(Issues) :
                ("milestone_name" \in DOMAIN Issues[i]
                    /\ "milestone_name" \notin DOMAIN Issues'[i])
                <=> (~HasResolvedMilestone(Issues[i]) /\ HasResolvedMilestone(Issues'[i]))]_vars

\* C10 amended: after extraction an issue extracted with a fixVersion has
\* milestone_name iff it has no resolved milestone, an issue extracted
\* without one has neither milestone_name nor a milestone, and
\* milestone_name goes in exactly the step that resolves the milestone.
C10_MilestoneNameUntilResolved ==
    /\ [](MigratePhase(pc) =>
            \A i \in 1..Len(Issues) :
                IF "fixVersion" \in DOMAIN ItemOf(i - 1)
                THEN "milestone_name" \in DOMAIN Issues[i]
                        <=> ~HasResolvedMilestone(Issues[i])
                ELSE /\ "milestone_name" \notin DOMAIN Issues[i]
                     /\ "milestone" \notin DOMAIN Issues[i])
    /\ [][(MigratePhase(pc) /\ MigratePhase(pc')) =>
            \A i \in 1..Len(Issues) :
                ("milestone_name" \in DOMAIN Issues[i]
                    /\ "milestone_name" \notin DOMAIN Issues'[i])
                <=> (~HasResolvedMilestone(Issues[i]) /\ HasResolvedMilestone(Issues'[i]))]_vars

C10_Witness ==
    /\ pc = "done"
    /\ Len(Issues) = 2
    /\ HasResolvedMilestone(Issues[1]) /\ "milestone_name" \notin DOMAIN Issues[1]
    /\ "milestone_name" \in DOMAIN Issues[2] /\ Issues[2].milestone = None

\* C11: every issue migrate() is past has had its bar.update, whichever
\* branch it took, in the order of the issues, and when migrate() is over
\* the last update is the number of issues.
C11_ProgressForEveryIssue ==
    (MigratePhase(pc) /\ Extracted) =>
        /\ \A i \in 0..(Len(outcome) - 1) : i \in Range(bar)
        /\ pc = "done" => /\ bar # <<>>
                          /\ bar[Len(bar)] = Len(Issues)
                          /\ Front(bar) = [i \in 1..Len(Issues) |-> i - 1]

RequestsOf(i) == SelectSeq(requests, LAMBDA r : r.index = i)

CreatesOf(i) == SelectSeq(Creates, LAMBDA r : r.index = i)

Increasing(q) == \A m, n \in 1..Len(q) : m < n => q[m] < q[n]

\* The steps migrate() has left at most: for every issue from the loop
\* index on, the steps of one round of the loop with as many comments as an
\* item of the export can have, less the steps already taken for the issue
\* the loop is at.
MaxComments ==
    CHOOSE m \in 0..10 :
        /\ \A item \in ItemPool : "comments" \in DOMAIN item => Len(item.comments) <= m
        /\ \E item \in ItemPool : "comments" \in DOMAIN item /\ Len(item.comments) = m

StepsTaken ==
    CASE pc = "_save_issue" -> 1
      [] pc = "append_cache" -> 2
      [] pc = "open_cache" -> 3
      [] pc = "dump_cache" -> 4
      [] pc = "saved" -> 5
      [] pc = "post_comments" -> 6 + comment_i
      [] OTHER -> 0

StepsLeft ==
    IF pc = "done" THEN 0
    ELSE 1 + (Len(Issues) - index) * (7 + MaxComments) - StepsTaken

\* C12: migrate() terminates: while it runs a step of it is possible, and
\* every step of it lowers StepsLeft, which is never negative.  The issues
\* before the loop index each have one of the four outcomes, all of them
\* when migrate() is over; _save_issue is called and creation requests are
\* issued in the order of the issues, at most one creation request for an
\* issue; a failed issue is one whose creation was answered with another
\* status than 201, a migrated one a dry-run save or a 201, and a skipped
\* or unresolved one has no request.
C12_EveryIssueOneOutcome ==
    /\ [](MigratePhase(pc) /\ Extracted =>
            /\ StepsLeft >= 0
            /\ pc # "done" => ENABLED Step
            /\ Len(outcome) = index
            /\ index <= Len(Issues)
            /\ pc = "done" => Len(outcome) = Len(Issues)
            /\ pc \notin {"milestones", "migrate", "done"} => index < Len(Issues)
            /\ Increasing(save_calls)
            /\ Increasing([n \in 1..Len(Creates) |-> Creates[n].index])
            /\ \A i \in 0..(Len(Issues) - 1) : Len(CreatesOf(i)) <= 1
            /\ \A i \in 0..(Len(outcome) - 1) :
                  /\ outcome[i + 1] \in {"skipped", "unresolved", "migrated", "failed"}
                  /\ outcome[i + 1] \in {"skipped", "unresolved"} =>
                        /\ RequestsOf(i) = <<>>
                        /\ i \notin Range(save_calls)
                  /\ outcome[i + 1] = "failed" <=>
                        (Len(CreatesOf(i)) = 1 /\ CreatesOf(i)[1].status_code # 201)
                  /\ outcome[i + 1] = "migrated" <=>
                        \/ dry_run /\ i \in Range(save_calls)
                        \/ Len(CreatesOf(i)) = 1 /\ CreatesOf(i)[1].status_code = 201)
    /\ [][(pc \in {"migrate", "_save_issue", "append_cache", "open_cache", "dump_cache",
                   "saved", "post_comments"} /\ pc' # "killed")
          => StepsLeft' < StepsLeft]_vars

C12_Witness ==
    /\ pc = "done"
    /\ ~dry_run
    /\ Len(Issues) = 2
    /\ outcome[1] \in {"unresolved", "failed"}
    /\ outcome[2] = "migrated"

\* C13: a step of migrate() at an issue whose key is in the cache issues no
\* request, does not call _save_issue, leaves the cache in memory, the cache
\* file, the destination and cant_migrate as they are, leaves every issue
\* record as it is (milestone_name, milestone, labels and comments
\* included), and goes to the next issue.
C13_CacheHitNoSideEffects ==
    [][(/\ pc = "migrate"
        /\ Extracted
        /\ index < Len(Issues)
        /\ issue.key \in Range(cached_data)
        /\ pc' # "killed")
       => /\ requests' = requests
          /\ save_calls' = save_calls
          /\ cached_data' = cached_data
          /\ file' = file
          /\ github_number' = github_number
          /\ cant_migrate' = cant_migrate
          /\ projects' = projects
          /\ pc' = "migrate"
          /\ index' = index + 1
          /\ outcome' = Append(outcome, "skipped")]_vars

\* A run has skipped an issue that carries a milestone_name, labels and
\* comments, and the issue still has them.
C13_Witness ==
    /\ Extracted
    /\ \E i \in 0..(Len(outcome) - 1) :
          /\ outcome[i + 1] = "skipped"
          /\ {"milestone_name", "labels", "comments"} \subseteq DOMAIN Issues[i + 1]
          /\ "milestone" \notin DOMAIN Issues[i + 1]
          /\ Issues[i + 1] = ExtractedFrom(ItemOf(i))

\* The titles of the listing milestones() got.
Titles == {listing[n].title : n \in 1..Len(listing)}

\* The issues extracted from an item whose fixVersion is name.
Referencing(name) ==
    {i \in 0..(Len(Issues) - 1) :
        "fixVersion" \in DOMAIN ItemOf(i) /\ ItemOf(i).fixVersion = name}

\* C14: once milestones() has run, a milestone name that is a title of the
\* listing has no value taken from the listing (it keeps the count of the
\* issues referencing it), and no creation request is issued for an issue
\* referencing it with a milestone value in its payload.
C14_ListedMilestoneNotSubmitted ==
    (MigratePhase(pc) /\ pc # "milestones" /\ Extracted) =>
        \A name \in DOMAIN Milestones \cap Titles :
            /\ Milestones[name] = Cardinality(Referencing(name))
            /\ \A n \in 1..Len(Creates) :
                  Creates[n].index \in Referencing(name) =>
                      "milestone" \notin DOMAIN Creates[n].payload

\* The value of an optional field of an item as a sequence, empty when the
\* field is absent.
Field(item, f) == IF f \in DOMAIN item THEN item[f] ELSE <<>>

One(item, f) == IF f \in DOMAIN item THEN <<item[f]>> ELSE <<>>

\* How often k occurs in q, added to the counts d.
Counted(d, q) ==
    [k \in DOMAIN d \cup Range(q) |->
        (IF k \in DOMAIN d THEN d[k] ELSE 0) + Cardinality({n \in 1..Len(q) : q[n] = k})]

LabelSources(item) ==
    SelectSeq(Field(item, "version"), VersionMatches) \o One(item, "priority")
        \o Field(item, "labels")

\* The project an item is added to, as it was before the item.
Before == IF Extracted THEN projects[jira_project] ELSE EmptyProject

\* C15: the step of extraction for an item appends one issue for it, whose
\* labels are status and type followed by what the present fields among
\* component, version, priority and labels give, whose comments are those
\* of the item (none when it has none) and which has milestone_name exactly
\* when the item has fixVersion; Milestones, Components and Labels change
\* by the counts of the present fields only, so an item without optional
\* fields leaves them unchanged.
C15_OptionalFieldsIndependent ==
    [][(pc = "extract" /\ Len(xml) > 0 /\ pc' # "killed") =>
          LET item == xml[item_i + 1]
              after == projects'[jira_project]
              added == after.Issues[Len(after.Issues)]
          IN  /\ Len(after.Issues) = Len(Before.Issues) + 1
              /\ added.key = item.key
              /\ added.labels = <<item.status, item.type>> \o One(item, "component")
                                    \o LabelSources(item)
              /\ Len(added.comments) = Len(Field(item, "comments"))
              /\ \A n \in 1..Len(added.comments) :
                    added.comments[n] = CommentText(item.comments[n])
              /\ "milestone_name" \in DOMAIN added <=> "fixVersion" \in DOMAIN item
              /\ "fixVersion" \in DOMAIN item => added.milestone_name = item.fixVersion
              /\ after.Milestones = Counted(Before.Milestones, One(item, "fixVersion"))
              /\ after.Components = Counted(Before.Components, One(item, "component"))
              /\ after.Labels = Counted(Before.Labels, LabelSources(item))]_vars

\* The values of an optional field over the first n items of the export,
\* in document order.
RECURSIVE Collected(_, _)
Collected(n, f) ==
    IF n = 0 THEN <<>>
    ELSE Collected(n - 1, f) \o
            (IF f = "labels" THEN LabelSources(xml[n]) ELSE One(xml[n], f))

\* C17: during and after extract() the project holds one issue for each of
\* the items read so far, in document order, and Milestones, Components and
\* Labels hold the totals over those items, whatever project key the items
\* carry.
C17_ExtractionAccumulates ==
    (pc \in {"extract", "milestones"} /\ item_i > 0) =>
        /\ Extracted
        /\ Len(Issues) = item_i
        /\ \A n \in 1..Len(Issues) : Issues[n].key = xml[n].key
        /\ Milestones = Counted(<<>>, Collected(item_i, "fixVersion"))
        /\ projects[jira_project].Components = Counted(<<>>, Collected(item_i, "component"))
        /\ projects[jira_project].Labels = Counted(<<>>, Collected(item_i, "labels"))

\* C16: the payload of a creation request has no comments and no
\* milestone_name; a comment request comes after a creation request of the
\* same issue that was answered with 201, goes to the number that creation
\* returned, and the comment requests of an issue carry the comments of its
\* item, in order.
C16_CommentsOnlyAfterCreation ==
    Extracted =>
        /\ \A n \in 1..Len(requests) :
              /\ requests[n].op = "create" =>
                    /\ "comments" \notin DOMAIN requests[n].payload
                    /\ "milestone_name" \notin DOMAIN requests[n].payload
              /\ requests[n].op = "comment" =>
                    \E m \in 1..(n - 1) :
                        /\ requests[m].op = "create"
                        /\ requests[m].index = requests[n].index
                        /\ requests[m].status_code = 201
                        /\ requests[m].number = requests[n].number
        /\ \A i \in 0..(Len(Issues) - 1) :
              IsPrefix(Bodies(CommentsOf(i)), ExpectedComments(i))

\* An issue extracted with comments and a milestone_name was created and
\* all its comments were submitted.
C16_Witness ==
    /\ Extracted
    /\ \E i \in 0..(Len(Issues) - 1) :
          /\ {"comments", "fixVersion"} \subseteq DOMAIN ItemOf(i)
          /\ Len(CreatesOf(i)) = 1
          /\ "milestone" \in DOMAIN CreatesOf(i)[1].payload
          /\ CommentsOf(i) # <<>>
          /\ Bodies(CommentsOf(i)) = ExpectedComments(i)

NoDuplicates(q) == \A m, n \in 1..Len(q) : q[m] = q[n] => m = n

\* C18: the keys in the file are all different, and when the keys loaded at
\* startup are all different so are the keys of the cache in memory; an
\* issue whose key is the key of an earlier issue of the run that was
\* migrated is skipped and has no creation request.
C18_NoDuplicateKeys ==
    /\ NoDuplicates(KeysIn(file))
    /\ NoDuplicates(loaded) => NoDuplicates(cached_data)
    /\ (MigratePhase(pc) /\ Extracted) =>
          \A i \in 0..(Len(outcome) - 1) :
              (\E j \in 0..(i - 1) : /\ Issues[j + 1].key = Issues[i + 1].key
                                     /\ outcome[j + 1] = "migrated")
              => /\ outcome[i + 1] = "skipped"
                 /\ CreatesOf(i) = <<>>

\* Two items of the export have the same key, the first was created and
\* recorded, the second was skipped, and the file holds the key once.
C18_Witness ==
    /\ pc = "done"
    /\ Extracted
    /\ dry_run = FALSE
    /\ Len(Issues) = 2
    /\ Issues[1].key = Issues[2].key
    /\ outcome = <<"migrated", "skipped">>
    /\ Len(Creates) = 1
    /\ Issues[1].key \in Range(Added)
    /\ KeysIn(file) = cached_data

\* The key of issue number i is the key of no other item of the export.
UniqueKey(i) ==
    Cardinality({n \in 1..Len(xml) : xml[n].key = Issues[i + 1].key}) = 1

\* C19: when the last of a sequence of runs, none of them a dry run, has
\* completed, every issue whose key a run created with 201 and wrote to the
\* cache, and whose key is in the cache file, has had each comment of its
\* item posted by one of the runs.
C19_CommentsComplete ==
    (pc = "done" /\ Extracted /\ dry_run = FALSE /\ earlier_runs.dry = FALSE) =>
        \A i \in 0..(Len(Issues) - 1) :
            (/\ UniqueKey(i)
             /\ Issues[i + 1].key \in Range(KeysIn(file))
             /\ Issues[i + 1].key \in completed \cup CompletedThisRun)
            => \A n \in 1..Len(ExpectedComments(i)) :
                  [key |-> Issues[i + 1].key, body |-> ExpectedComments(i)[n]]
                      \in earlier_runs.sent \cup SentThisRun

====
